---------------------------- MODULE Spec2Model ----------------------------
(* deploy-tool: the `deploy <environment>` and `rollback` commands of      *)
(* deploy_tool/cli.py and the provisioning, readiness, pipeline and        *)
(* teardown code of deploy_tool/aws.py, as a state machine over            *)
(*   - the files the tool keeps in its working directory                   *)
(*     (bucket.json, ec2_instance_id.txt, security_group_id.txt),          *)
(*   - the cloud resources it creates and deletes (S3 buckets, EC2         *)
(*     security groups and instances),                                     *)
(*   - the position of the one running command.                            *)
(* The tool is a single-threaded CLI: one command runs at a time.  The     *)
(* cloud can change between and during commands (out-of-band deletes) and  *)
(* the process can be killed at any step.                                  *)
EXTENDS Integers, Sequences, FiniteSets, TLC

(***************************************************************************)
(* Bounds of the model.                                                    *)
(***************************************************************************)
\* number of commands the operator runs in one behaviour
MaxCommands == 2
\* clock ticks per time unit of the readiness pollers
TicksPerUnit == 2

(***************************************************************************)
(* Values.                                                                 *)
(***************************************************************************)
Envs == {"dev", "prod"}

StaticFrameworks == {"react", "react-vite", "angular"}

Frameworks == StaticFrameworks \cup {"nextjs"}

\* aws.py:12 REGION, and the default `region = "ap-south-1"` of cli.py:310
REGION == "ap-south-1"

Regions == {REGION, "us-east-1"}

BucketNames == {"site-a", "site-b"}

\* ids the provider hands out: one for the deployment found at the start, and
\* a command creates at most one group and one instance
Ids == 1..(MaxCommands + 1)

\* bucket.json: absent, or the dict written by save_bucket_config
NoRecord == [present |-> FALSE, bucket |-> "none", region |-> "none", env |-> "none"]

Record(b, r, e) == [present |-> TRUE, bucket |-> b, region |-> r, env |-> e]

\* bucket.json exists but does not hold JSON (empty, cut short, garbage)
CorruptFile == [present |-> TRUE, bucket |-> "corrupt", region |-> "corrupt", env |-> "corrupt"]

\* load_bucket_config (cli.py and config.py alike): a missing file is None;
\* an existing one goes to json.load, which raises on anything but JSON
LoadRaises(file) == file = CorruptFile

\* a bucket of the provider
NoBucket == [live |-> FALSE, region |-> "none", objs |-> FALSE]

\* a security group of the provider; name is the environment of "<environment>-sg"
NoGroup == [live |-> FALSE, name |-> "none"]

\* a deleted group: its id is spent, its name is free again
DeletedGroup == [live |-> FALSE, name |-> "deleted"]

\* an instance of the provider; "running" stands for pending-or-running (the
\* provider moves a pending instance to running on its own, and no call of
\* the tool tells the two apart)
NoInstance == [state |-> "absent", sg |-> 0]

VARIABLES
  bucketCfg,   \* content of bucket.json
  instFile,    \* content of ec2_instance_id.txt (0: no file)
  sgFile,      \* content of security_group_id.txt (0: no file)
  s3,          \* provider: bucket name -> bucket
  groups,      \* provider: security-group id -> group
  instances,   \* provider: instance id -> instance
  pc,          \* position of the running command ("idle": none)
  cmd,         \* the running (or last) command
  env,         \* its environment argument
  bucket,      \* local `bucket` of deploy_react / deploy_angular / deploy_react_vite
  region,      \* local `region` of the same
  sg,          \* local `sg.id` of provision_ec2_with_docker
  inst,        \* local `instance.id` of provision_ec2_with_docker
  sessions,    \* number of open SSH sessions of upload_and_run_on_ec2
  invoked,     \* pipeline steps invoked by this run, with their exit status
  said,        \* what the command told the operator
  err,         \* the exception that ended the command ("none": returned)
  exit,        \* exit status of the last command (-1: none yet, 137: killed)
  prev,        \* summary of the command that ran before this one
  drift,       \* somebody else has changed the cloud resources
  commands,    \* number of commands started so far
  poller,      \* readiness poller under test ("ssh" | "docker" | "none")
  timeout,     \* its `timeout` argument
  now,         \* clock, in ticks
  start_time,  \* wait_for_ssh: `start_time`
  attempts,    \* poll attempts made
  ppc,         \* position of the poller
  target,      \* behaviour of the polled host
  bucket_name, \* local `bucket_name` of create_public_s3_bucket
  before       \* content of bucket.json when the bucket-creation path was entered

fileVars == <<bucketCfg, instFile, sgFile>>

cloudVars == <<s3, groups, instances>>

localVars == <<bucket, region, sg, inst, sessions, invoked>>

cmdVars == <<pc, cmd, env, said, err, exit, prev, drift, commands>>

pollVars == <<poller, timeout, now, start_time, attempts, ppc, target>>

createVars == <<bucket_name, before>>

vars == <<fileVars, cloudVars, localVars, cmdVars, pollVars, createVars>>

(***************************************************************************)
(* How a command ends.  cli.py is a click application: a command function  *)
(* that returns makes the process exit with status 0, an exception that    *)
(* nothing catches makes it exit with status 1.                            *)
(***************************************************************************)
Finish(e, x, s) ==
  /\ pc' = "done"
  /\ err' = e
  /\ exit' = x
  /\ said' = said \cup s
  /\ UNCHANGED <<cmd, env, prev, drift, commands>>

\* `return` (after click.echo of the messages in s)
Return(s) == Finish("none", 0, s)

\* an exception e that propagates out of the command
Raise(e) == Finish(e, 1, {})

\* fall through to the next statement
Goto(p) ==
  /\ pc' = p
  /\ UNCHANGED <<cmd, env, said, err, exit, prev, drift, commands>>

\* the messages of a deploy that stopped before it provisioned anything
EarlyStops == {"no config", "clone failed", "no project", "build failed", "no build folder"}

\* a static deploy that ran past its build and was not killed
RanStatic == cmd = "deploy_static" /\ err # "killed" /\ said \cap EarlyStops = {}

\* what is kept of a command once it is over: that it was a rollback, or a
\* static deploy that ran past its build, with its environment and the bucket
\* it deployed to; of any other command (a dockerized deploy, a deploy that
\* stopped early, a killed command) only that there was one
Summary ==
  [cmd |-> IF RanStatic \/ (cmd = "rollback" /\ err # "killed") THEN cmd ELSE "other",
   env |-> IF RanStatic THEN env ELSE "none",
   bucket |-> IF RanStatic THEN bucket ELSE "none"]

NoSummary ==
  [cmd |-> "none", env |-> "none", bucket |-> "none"]

\* a new process is started from the shell
Begin(c, e, p) ==
  /\ pc = "idle"
  /\ commands < MaxCommands
  /\ commands' = commands + 1
  /\ pc' = p
  /\ cmd' = c
  /\ env' = e
  /\ UNCHANGED <<said, err, exit, prev, drift>>
  /\ UNCHANGED localVars

\* the process is gone: its locals and its output with it; the shell keeps
\* what the operator remembers of it
ProcessExits ==
  /\ pc = "done"
  /\ pc' = "idle"
  /\ UNCHANGED commands
  /\ prev' = Summary
  /\ UNCHANGED drift
  /\ cmd' = "none"
  /\ env' = "none"
  /\ said' = {}
  /\ err' = "none"
  /\ exit' = -1
  /\ bucket' = "none"
  /\ region' = REGION
  /\ sg' = 0
  /\ inst' = 0
  /\ sessions' = 0
  /\ invoked' = <<>>
  /\ UNCHANGED <<fileVars, cloudVars, pollVars, createVars>>

(***************************************************************************)
(* Initial state: no command is running.  The working directory and the    *)
(* cloud are as earlier runs of the tool left them:                        *)
(*  - no EC2 files and no EC2 resources, or the files, group and running   *)
(*    instance a completed `deploy dev` of a nextjs project leaves;        *)
(*  - no bucket.json, or one that names a bucket of an earlier static      *)
(*    deployment (the file outlives the process and is read as found), or  *)
(*    one that an interrupted write or an editor left without valid JSON.  *)
(***************************************************************************)
Init ==
  /\ \/ /\ instFile = 0
        /\ sgFile = 0
        /\ groups = [i \in Ids |-> NoGroup]
        /\ instances = [i \in Ids |-> NoInstance]
     \/ /\ instFile = 1
        /\ sgFile = 1
        /\ groups = [i \in Ids |-> IF i = 1 THEN [live |-> TRUE, name |-> "dev"] ELSE NoGroup]
        /\ instances = [i \in Ids |-> IF i = 1 THEN [state |-> "running", sg |-> 1] ELSE NoInstance]
  /\ \/ /\ bucketCfg = NoRecord
        /\ s3 = [b \in BucketNames |-> NoBucket]
     \/ /\ bucketCfg = CorruptFile
        /\ s3 = [b \in BucketNames |-> NoBucket]
     \/ \E b \in {"site-a"}, live \in Regions :
          /\ bucketCfg = Record(b, REGION, "dev")
          /\ s3 = [x \in BucketNames |->
                     IF x = b THEN [live |-> TRUE, region |-> live, objs |-> TRUE]
                     ELSE NoBucket]
  /\ pc = "idle"
  /\ cmd = "none"
  /\ env = "none"
  /\ bucket = "none"
  /\ region = REGION
  /\ sg = 0
  /\ inst = 0
  /\ sessions = 0
  /\ invoked = <<>>
  /\ said = {}
  /\ err = "none"
  /\ exit = -1
  /\ prev = NoSummary
  /\ drift = FALSE
  /\ commands = 0
  /\ poller = "none"
  /\ timeout = 0
  /\ now = 0
  /\ start_time = 0
  /\ attempts = 0
  /\ ppc = "off"
  /\ target = "none"
  /\ bucket_name = "none"
  /\ before = NoRecord

(***************************************************************************)
(* deploy <environment>  (cli.py deploy)                                   *)
(***************************************************************************)
\* deploy(): load_config, clone_repository, dispatch on the framework
Deploy(e, fw) ==
  /\ Begin(IF fw = "nextjs" THEN "deploy_dockerized" ELSE "deploy_static", e, "cloning")
  /\ UNCHANGED <<fileVars, cloudVars, pollVars, createVars>>

\* deploy(): no saved project config, or the clone failed: echo and return
DeployStopsEarly ==
  /\ pc = "cloning"
  /\ \E why \in {"no config", "clone failed"} : Return({why})
  /\ UNCHANGED <<fileVars, cloudVars, localVars, pollVars, createVars>>

\* deploy(): the clone succeeded, the framework function is entered
DeployCloned ==
  /\ pc = "cloning"
  /\ Goto(IF cmd = "deploy_static" THEN "building" ELSE "d_sg")
  /\ UNCHANGED <<fileVars, cloudVars, localVars, pollVars, createVars>>

\* a failed build that also discards the bucket record
BuildFailsResetsRecord ==
  /\ pc = "building"
  /\ \E why \in {"no project", "build failed", "no build folder"} : Return({why})
  /\ bucketCfg' = NoRecord
  /\ UNCHANGED <<instFile, sgFile, cloudVars, localVars, pollVars, createVars>>

(***************************************************************************)
(* deploy_react / deploy_angular / deploy_react_vite (same body from the   *)
(* build on; they differ in the bucket-name prefix only).                  *)
(***************************************************************************)
\* project not found, build failed or build output missing: echo and return
BuildFails ==
  /\ pc = "building"
  /\ \E why \in {"no project", "build failed", "no build folder"} : Return({why})
  /\ UNCHANGED <<fileVars, cloudVars, localVars, pollVars, createVars>>

BuildOk ==
  /\ pc = "building"
  /\ Goto("s_select")
  /\ UNCHANGED <<fileVars, cloudVars, localVars, pollVars, createVars>>

\* a cached name taken for a live bucket without asking the provider
ProbeSkipped(b) == b \in BucketNames

\* bucket_exists: head_bucket answers, or ClientError -> False
bucket_exists(b) == b \in BucketNames /\ s3[b].live

\* get_bucket_region: the live location, None on ClientError
get_bucket_region(b, answered) == IF answered /\ bucket_exists(b) THEN s3[b].region ELSE "none"

\* a record taken for the environment's own without looking at its env field
MatchesAnyEnv(state, e) == state.present

\* `state and state.get("env") == environment`
Matches(state, e) == state.present /\ state.env = e

\* state = load_bucket_config(): json.load raises, nothing catches it
LoadFails ==
  /\ pc = "s_select"
  /\ LoadRaises(bucketCfg)
  /\ Raise("JSONDecodeError")
  /\ UNCHANGED <<fileVars, cloudVars, localVars, pollVars, createVars>>

\* load_bucket_config, then the reuse-or-recreate decision
SelectBucket ==
  /\ pc = "s_select"
  /\ ~ LoadRaises(bucketCfg)
  /\ LET state == bucketCfg
         candidate == state.bucket
     IN IF Matches(state, env) /\ bucket_exists(candidate)
        THEN \E answered \in BOOLEAN :
               /\ bucket' = candidate
               /\ region' = IF get_bucket_region(candidate, answered) # "none"
                            THEN get_bucket_region(candidate, answered) ELSE region
               /\ pc' = "s_sync"
               /\ said' = said \cup {"Reusing bucket"}
        ELSE /\ UNCHANGED <<bucket, region>>
             /\ pc' = "s_create"
             /\ said' = said \cup
                  (IF Matches(state, env) THEN {"Config refers to a deleted/missing bucket"} ELSE {})
  /\ UNCHANGED <<cmd, env, err, exit, prev, drift, commands>>
  /\ UNCHANGED <<fileVars, cloudVars, sg, inst, sessions, invoked, pollVars, createVars>>

\* the keyword arguments aws.create_public_s3_bucket accepts (aws.py:19)
CreateBucketParams == {"prefix"}

\* the keyword arguments the three deploy functions pass (cli.py:323, 402, 469)
CreateBucketArgs == {"prefix", "region"}

\* `if not bucket:` create_public_s3_bucket(prefix=..., region=region).
\* Python binds the arguments before the body runs: a keyword the function
\* does not declare raises TypeError, which nothing catches.
CreateBucket ==
  /\ pc = "s_create"
  /\ ~ (CreateBucketArgs \subseteq CreateBucketParams)
  /\ Raise("TypeError")
  /\ UNCHANGED <<fileVars, cloudVars, localVars, pollVars, createVars>>

\* `aws s3 sync build_dir s3://bucket --delete`
Sync ==
  /\ pc = "s_sync"
  /\ \/ /\ bucket_exists(bucket)
        /\ s3' = [s3 EXCEPT ![bucket].objs = TRUE]
        /\ Goto("s_website")
     \/ /\ Return({"AWS CLI sync failed"})
        /\ UNCHANGED s3
  /\ UNCHANGED <<fileVars, groups, instances, localVars, pollVars, createVars>>

\* enable_static_website(bucket), get_website_url, "Site deployed"
EnableWebsite ==
  /\ pc = "s_website"
  /\ \/ /\ bucket_exists(bucket)
        /\ Return({"Site deployed"})
     \/ Raise("ClientError")
  /\ UNCHANGED <<fileVars, cloudVars, localVars, pollVars, createVars>>

(***************************************************************************)
(* deploy_dockerized -> provision_ec2_with_docker(environment)             *)
(***************************************************************************)
\* ids the provider has not handed out yet (ids are never reused)
FreeGroups == {i \in Ids : groups[i] = NoGroup}

FreeInstances == {i \in Ids : instances[i] = NoInstance}

\* group names that never collide (a provider, or a naming scheme, that lets
\* a second "<e>-sg" through)
GroupNameNeverTaken(e) == FALSE

\* a live group already carries the name "<e>-sg"
GroupNameTaken(e) == \E i \in Ids : groups[i].live /\ groups[i].name = e

\* ec2.create_security_group(GroupName=f"{environment}-sg"): the provider
\* rejects a duplicate name, and may reject the call for its own reasons
CreateSecurityGroup ==
  /\ pc = "d_sg"
  /\ \/ /\ ~ GroupNameTaken(env)
        /\ FreeGroups # {}
        /\ LET id == CHOOSE i \in FreeGroups : \A j \in FreeGroups : i <= j
           IN /\ groups' = [groups EXCEPT ![id] = [live |-> TRUE, name |-> env]]
              /\ sg' = id
        /\ Goto("d_ingress")
     \/ /\ Raise("ClientError")
        /\ UNCHANGED <<groups, sg>>
  /\ UNCHANGED <<fileVars, s3, instances, bucket, region, inst, sessions, invoked, pollVars, createVars>>

\* sg.authorize_ingress(ports 22 and 80)
AuthorizeIngress ==
  /\ pc = "d_ingress"
  /\ \/ /\ groups[sg].live
        /\ Goto("d_instance")
     \/ Raise("ClientError")
  /\ UNCHANGED <<fileVars, cloudVars, localVars, pollVars, createVars>>

\* ec2.create_instances(MinCount=1, MaxCount=1, SecurityGroupIds=[sg.id])[0]
CreateInstance ==
  /\ pc = "d_instance"
  /\ \/ /\ groups[sg].live
        /\ FreeInstances # {}
        /\ LET id == CHOOSE i \in FreeInstances : \A j \in FreeInstances : i <= j
           IN /\ instances' = [instances EXCEPT ![id] = [state |-> "running", sg |-> sg]]
              /\ inst' = id
        /\ Goto("d_wait")
     \/ /\ Raise("ClientError")
        /\ UNCHANGED <<instances, inst>>
  /\ UNCHANGED <<fileVars, s3, groups, bucket, region, sg, sessions, invoked, pollVars, createVars>>

\* instance.wait_until_running(); instance.reload(): the instance reaches
\* "running", or the waiter gives up (WaiterError)
WaitUntilRunning ==
  /\ pc = "d_wait"
  /\ \/ /\ instances[inst].state = "running"
        /\ Goto("d_write_instance")
     \/ Raise("WaiterError")
  /\ UNCHANGED <<fileVars, cloudVars, localVars, pollVars, createVars>>

\* open("ec2_instance_id.txt", "w").write(instance.id)
WriteInstanceFile ==
  /\ pc = "d_write_instance"
  /\ instFile' = inst
  /\ Goto("d_write_group")
  /\ UNCHANGED <<bucketCfg, sgFile, cloudVars, localVars, pollVars, createVars>>

\* open("security_group_id.txt", "w").write(sg.id)
WriteGroupFile ==
  /\ pc = "d_write_group"
  /\ sgFile' = sg
  /\ Goto("d_address")
  /\ UNCHANGED <<bucketCfg, instFile, cloudVars, localVars, pollVars, createVars>>

\* a deploy that opens its session without waiting for the SSH port
ReturnAddressUnwaited ==
  /\ pc = "d_address"
  /\ \/ Goto("u_connect")
     \/ Return({"EC2 setup failed"})
  /\ UNCHANGED <<fileVars, cloudVars, localVars, pollVars, createVars>>

\* return instance.public_ip_address; deploy_dockerized: `if not instance_ip`
\* (an instance launched without a public address has None there)
ReturnAddress ==
  /\ pc = "d_address"
  /\ \/ Goto("u_wait_ssh")
     \/ Return({"EC2 setup failed"})
  /\ UNCHANGED <<fileVars, cloudVars, localVars, pollVars, createVars>>

(***************************************************************************)
(* upload_and_run_on_ec2(public_ip, zip_path, framework)                   *)
(***************************************************************************)
\* the `finally: ssh.close()` of upload_and_run_on_ec2: it closes the client
\* the name `ssh` is bound to at that point, which is connected from the
\* return of its connect on (closing an unconnected client does nothing)
CloseSession ==
  sessions' = IF pc \in {"u_wait_docker", "u_upload", "u_step"} THEN sessions - 1 ELSE sessions

\* wait_for_ssh(public_ip), called before the try block
WaitForSshCall ==
  /\ pc = "u_wait_ssh"
  /\ \/ Goto("u_connect")
     \/ Raise("TimeoutError")
  /\ UNCHANGED <<fileVars, cloudVars, localVars, pollVars, createVars>>

\* first ssh.connect
Connect ==
  /\ pc = "u_connect"
  /\ \/ /\ sessions' = sessions + 1
        /\ Goto("u_wait_docker")
     \/ /\ CloseSession
        /\ Raise("SSHException")
  /\ UNCHANGED <<fileVars, cloudVars, bucket, region, sg, inst, invoked, pollVars, createVars>>

\* the client is replaced without the ssh.close() after wait_for_docker
WaitForDockerCallKeepsSession ==
  /\ pc = "u_wait_docker"
  /\ \/ /\ UNCHANGED sessions
        /\ Goto("u_reconnect")
     \/ /\ CloseSession
        /\ \E e \in {"DockerTimeout", "SSHException"} : Raise(e)
  /\ UNCHANGED <<fileVars, cloudVars, bucket, region, sg, inst, invoked, pollVars, createVars>>

\* wait_for_docker(ssh); ssh.close()
WaitForDockerCall ==
  /\ pc = "u_wait_docker"
  /\ \/ /\ sessions' = sessions - 1
        /\ Goto("u_reconnect")
     \/ /\ CloseSession
        /\ \E e \in {"DockerTimeout", "SSHException"} : Raise(e)
  /\ UNCHANGED <<fileVars, cloudVars, bucket, region, sg, inst, invoked, pollVars, createVars>>

\* the second paramiko.SSHClient() and ssh.connect
Reconnect ==
  /\ pc = "u_reconnect"
  /\ \/ /\ sessions' = sessions + 1
        /\ Goto("u_upload")
     \/ /\ CloseSession
        /\ Raise("SSHException")
  /\ UNCHANGED <<fileVars, cloudVars, bucket, region, sg, inst, invoked, pollVars, createVars>>

\* a transfer whose failure is reported like that of a remote command:
\* print and return
UploadFailureReturned ==
  /\ pc = "u_upload"
  /\ \/ /\ Goto("u_step")
        /\ UNCHANGED sessions
     \/ /\ CloseSession
        /\ Return({"Failed", "Deployed at"})
  /\ UNCHANGED <<fileVars, cloudVars, bucket, region, sg, inst, invoked, pollVars, createVars>>

\* scp.put(zip_path, "app.zip")
Upload ==
  /\ pc = "u_upload"
  /\ \/ /\ Goto("u_step")
        /\ UNCHANGED sessions
     \/ /\ CloseSession
        /\ Raise("SCPException")
  /\ UNCHANGED <<fileVars, cloudVars, bucket, region, sg, inst, invoked, pollVars, createVars>>

\* the remote commands, in the order of the function body
PipelineSteps == <<"unzip", "docker build", "docker run">>

\* exit statuses a remote command is drawn from (-1: exec_command raised)
ExitStatuses == {0, 1, -1}

\* the status check left out: every step runs whatever the earlier ones did
AbortsOnNever(status) == FALSE

\* `if exit_status != 0: print("Failed"); return`

AbortsOn(status) == status # 0

\* ssh.exec_command(step), recv_exit_status, the check of the status
RunStep ==
  /\ pc = "u_step"
  /\ Len(invoked) < Len(PipelineSteps)
  /\ LET k == Len(invoked) + 1 IN
     \E status \in ExitStatuses :
       /\ invoked' = Append(invoked, [step |-> PipelineSteps[k], status |-> status])
       /\ IF status = -1
          THEN CloseSession /\ Raise("SSHException")
          ELSE IF AbortsOn(status)
          THEN CloseSession /\ Return({"Failed", "Deployed at"})
          ELSE IF k = Len(PipelineSteps)
          THEN CloseSession /\ Return({"Deployment complete", "Deployed at"})
          ELSE Goto("u_step") /\ UNCHANGED sessions
  /\ UNCHANGED <<fileVars, cloudVars, bucket, region, sg, inst, pollVars, createVars>>

(***************************************************************************)
(* rollback  (cli.py rollback -> aws.py rollback_all_resources)            *)
(***************************************************************************)
Rollback ==
  /\ Begin("rollback", "none", "r_instance")
  /\ UNCHANGED <<fileVars, cloudVars, pollVars, createVars>>

\* the provider still resolves the instance id
InstanceResolves(i) == i \in Ids /\ instances[i].state \notin {"absent", "gone"}

\* instances that keep a security group from being deleted
Attached(g) == {i \in Ids : instances[i].sg = g /\
                   instances[i].state \in {"running", "shutting-down"}}

\* `if os.path.exists("ec2_instance_id.txt")`: instance.terminate()
TerminateInstance ==
  /\ pc = "r_instance"
  /\ IF instFile = 0
     THEN Goto("r_group") /\ UNCHANGED <<instances, inst>>
     ELSE /\ inst' = instFile
          /\ IF InstanceResolves(instFile)
             THEN /\ instances' = [instances EXCEPT ![instFile].state =
                                     IF @ = "terminated" THEN @ ELSE "shutting-down"]
                  /\ Goto("r_wait_terminated")
             ELSE Raise("ClientError:NotFound") /\ UNCHANGED instances
  /\ UNCHANGED <<fileVars, s3, groups, bucket, region, sg, sessions, invoked, pollVars, createVars>>

\* a rollback that does not wait for the instance to be terminated
WaitSkipped ==
  /\ pc = "r_wait_terminated"
  /\ Goto("r_remove_instance_file")
  /\ UNCHANGED <<fileVars, cloudVars, localVars, pollVars, createVars>>

\* instance.wait_until_terminated()
WaitUntilTerminated ==
  /\ pc = "r_wait_terminated"
  /\ \/ /\ InstanceResolves(instFile)
        /\ instances' = [instances EXCEPT ![instFile].state = "terminated"]
        /\ Goto("r_remove_instance_file")
     \/ /\ Raise("WaiterError")
        /\ UNCHANGED instances
  /\ UNCHANGED <<fileVars, s3, groups, localVars, pollVars, createVars>>

\* os.remove("ec2_instance_id.txt")
RemoveInstanceFile ==
  /\ pc = "r_remove_instance_file"
  /\ instFile' = 0
  /\ Goto("r_group")
  /\ UNCHANGED <<bucketCfg, sgFile, cloudVars, localVars, pollVars, createVars>>

\* a rollback that goes on to remove the file whatever sg.delete() answered
DeleteSecurityGroupBestEffort ==
  /\ pc = "r_group"
  /\ IF sgFile = 0
     THEN Goto("r_bucket") /\ UNCHANGED <<groups, sg>>
     ELSE /\ sg' = sgFile
          /\ groups' = IF groups[sgFile].live /\ Attached(sgFile) = {}
                       THEN [groups EXCEPT ![sgFile] = DeletedGroup] ELSE groups
          /\ Goto("r_remove_group_file")
  /\ UNCHANGED <<fileVars, s3, instances, bucket, region, inst, sessions, invoked, pollVars, createVars>>

\* `if os.path.exists("security_group_id.txt")`: sg.delete()
DeleteSecurityGroup ==
  /\ pc = "r_group"
  /\ IF sgFile = 0
     THEN Goto("r_bucket") /\ UNCHANGED <<groups, sg>>
     ELSE /\ sg' = sgFile
          /\ IF ~ groups[sgFile].live
             THEN Raise("ClientError:NotFound") /\ UNCHANGED groups
             ELSE IF Attached(sgFile) # {}
             THEN Raise("ClientError:DependencyViolation") /\ UNCHANGED groups
             ELSE /\ groups' = [groups EXCEPT ![sgFile] = DeletedGroup]
                  /\ Goto("r_remove_group_file")
  /\ UNCHANGED <<fileVars, s3, instances, bucket, region, inst, sessions, invoked, pollVars, createVars>>

\* a rollback that wipes the whole state once the group is deleted
RemoveEveryFile ==
  /\ pc = "r_remove_group_file"
  /\ sgFile' = 0
  /\ bucketCfg' = NoRecord
  /\ Goto("r_bucket")
  /\ UNCHANGED <<instFile, cloudVars, localVars, pollVars, createVars>>

\* os.remove("security_group_id.txt")
RemoveGroupFile ==
  /\ pc = "r_remove_group_file"
  /\ sgFile' = 0
  /\ Goto("r_bucket")
  /\ UNCHANGED <<bucketCfg, instFile, cloudVars, localVars, pollVars, createVars>>

\* state = load_bucket_config(); `if state:` delete_s3_bucket: the loop
\* over bucket.objects.all() (NoSuchBucket when the bucket is gone)
EmptyBucket ==
  /\ pc = "r_bucket"
  /\ IF LoadRaises(bucketCfg)
     THEN Raise("JSONDecodeError") /\ UNCHANGED s3
     ELSE IF ~ bucketCfg.present
     THEN Return({"No S3 bucket found to delete", "Full rollback complete"}) /\ UNCHANGED s3
     ELSE IF bucket_exists(bucketCfg.bucket)
     THEN /\ s3' = [s3 EXCEPT ![bucketCfg.bucket].objs = FALSE]
          /\ Goto("r_delete_bucket")
     ELSE Raise("ClientError:NotFound") /\ UNCHANGED s3
  /\ bucket' = IF LoadRaises(bucketCfg) THEN bucket ELSE bucketCfg.bucket
  /\ UNCHANGED <<fileVars, groups, instances, region, sg, inst, sessions, invoked, pollVars, createVars>>

\* delete_s3_bucket: bucket.delete()
DeleteBucket ==
  /\ pc = "r_delete_bucket"
  /\ IF ~ bucket_exists(bucketCfg.bucket)
     THEN Raise("ClientError:NotFound") /\ UNCHANGED s3
     ELSE IF s3[bucketCfg.bucket].objs
     THEN Raise("ClientError:BucketNotEmpty") /\ UNCHANGED s3
     ELSE /\ s3' = [s3 EXCEPT ![bucketCfg.bucket] = NoBucket]
          /\ Goto("r_unlink")
  /\ UNCHANGED <<fileVars, groups, instances, localVars, pollVars, createVars>>

\* CONFIG_FILE.unlink(missing_ok=True); rollback(): "Full rollback complete."
UnlinkConfig ==
  /\ pc = "r_unlink"
  /\ bucketCfg' = NoRecord
  /\ Return({"Deleted S3 bucket", "Full rollback complete"})
  /\ UNCHANGED <<instFile, sgFile, cloudVars, localVars, pollVars, createVars>>

(***************************************************************************)
(* The world outside the tool.                                             *)
(***************************************************************************)
Drifted ==
  /\ drift' = TRUE
  /\ UNCHANGED <<pc, cmd, env, said, err, exit, prev, commands>>

\* somebody else deletes a bucket
BucketDeletedOutOfBand ==
  /\ \E b \in BucketNames :
       /\ s3[b].live
       /\ s3' = [s3 EXCEPT ![b] = NoBucket]
  /\ Drifted
  /\ UNCHANGED <<fileVars, groups, instances, localVars, pollVars, createVars>>

\* somebody else terminates an instance
InstanceTerminatedOutOfBand ==
  /\ \E i \in Ids :
       /\ instances[i].state = "running"
       /\ instances' = [instances EXCEPT ![i].state = "terminated"]
  /\ Drifted
  /\ UNCHANGED <<fileVars, s3, groups, localVars, pollVars, createVars>>

\* the provider forgets a terminated instance: its id no longer resolves
InstancePurged ==
  /\ \E i \in Ids :
       /\ instances[i].state = "terminated"
       /\ instances' = [instances EXCEPT ![i].state = "gone"]
  /\ Drifted
  /\ UNCHANGED <<fileVars, s3, groups, localVars, pollVars, createVars>>

\* somebody else deletes a security group no instance is attached to
GroupDeletedOutOfBand ==
  /\ \E g \in Ids :
       /\ groups[g].live
       /\ Attached(g) = {}
       /\ groups' = [groups EXCEPT ![g] = DeletedGroup]
  /\ Drifted
  /\ UNCHANGED <<fileVars, s3, instances, localVars, pollVars, createVars>>

\* the process is killed (crash, Ctrl-C, power loss) at any step
Killed ==
  /\ pc \notin {"idle", "done"}
  /\ sessions' = 0
  /\ Finish("killed", 137, {})
  /\ UNCHANGED <<fileVars, cloudVars, bucket, region, sg, inst, invoked, pollVars, createVars>>

Environment ==
  \/ BucketDeletedOutOfBand
  \/ InstanceTerminatedOutOfBand
  \/ InstancePurged
  \/ GroupDeletedOutOfBand
  \/ Killed

DeployStatic ==
  \/ BuildFails
  \/ BuildOk
  \/ LoadFails
  \/ SelectBucket
  \/ CreateBucket
  \/ Sync
  \/ EnableWebsite

Provision ==
  \/ CreateSecurityGroup
  \/ AuthorizeIngress
  \/ CreateInstance
  \/ WaitUntilRunning
  \/ WriteInstanceFile
  \/ WriteGroupFile
  \/ ReturnAddress

UploadAndRun ==
  \/ WaitForSshCall
  \/ Connect
  \/ WaitForDockerCall
  \/ Reconnect
  \/ Upload
  \/ RunStep

RollbackAll ==
  \/ TerminateInstance
  \/ WaitUntilTerminated
  \/ RemoveInstanceFile
  \/ DeleteSecurityGroup
  \/ RemoveGroupFile
  \/ EmptyBucket
  \/ DeleteBucket
  \/ UnlinkConfig

Next ==
  \/ \E e \in Envs, fw \in Frameworks : Deploy(e, fw)
  \/ DeployStopsEarly
  \/ DeployCloned
  \/ DeployStatic
  \/ Provision
  \/ UploadAndRun
  \/ Rollback
  \/ RollbackAll
  \/ ProcessExits
  \/ Environment

Spec == Init /\ [][Next]_vars

(***************************************************************************)
(* The readiness pollers on their own: wait_for_ssh and wait_for_docker    *)
(* called with a timeout against a host that is dead (never ready), flaky  *)
(* (each attempt may or may not succeed) or broken (the probe itself may   *)
(* raise).  Time is counted in ticks, TicksPerUnit to the time unit.       *)
(***************************************************************************)
\* time.sleep(5) of both loops, and the timeout=5 of socket.create_connection
SleepInterval == 5

ConnectTimeout == 5

\* the timeout of the readiness test of the design, and the defaults of
\* wait_for_docker and wait_for_ssh
Timeouts == {20, 120, 300}

Ticks(units) == units * TicksPerUnit

\* no attempt starts later than this: the last check passed at most
\* `timeout` after the start and one sleep followed it
ClockCap == Ticks(300 + 2 * SleepInterval)

InitPoll ==
  /\ bucketCfg = NoRecord
  /\ instFile = 0
  /\ sgFile = 0
  /\ s3 = [b \in BucketNames |-> NoBucket]
  /\ groups = [i \in Ids |-> NoGroup]
  /\ instances = [i \in Ids |-> NoInstance]
  /\ pc = "idle"
  /\ cmd = "none"
  /\ env = "none"
  /\ bucket = "none"
  /\ region = REGION
  /\ sg = 0
  /\ inst = 0
  /\ sessions = 0
  /\ invoked = <<>>
  /\ said = {}
  /\ err = "none"
  /\ exit = -1
  /\ prev = NoSummary
  /\ drift = FALSE
  /\ commands = 0
  /\ poller \in {"ssh", "docker"}
  /\ timeout \in Timeouts
  /\ target \in {"dead", "flaky", "broken"}
  /\ now = 0
  /\ start_time = 0
  /\ attempts = 0
  /\ ppc = "attempt"
  /\ bucket_name = "none"
  /\ before = NoRecord

\* the comparison with its operands swapped: never true while time advances
TimedOutSwapped(t, start, limit) == start - t > Ticks(limit)

\* `time.time() - start_time > timeout`

TimedOut(t, start, limit) == t - start > Ticks(limit)

\* wait_for_ssh: socket.create_connection((ip, port), timeout=5) connects
\* (break) or raises one of the caught errors.  The call takes time: at
\* least one tick (a refused connection), at most the connect timeout.
SshAttempt ==
  /\ poller = "ssh"
  /\ ppc = "attempt"
  /\ now <= ClockCap
  /\ attempts' = attempts + 1
  /\ \E d \in 1..Ticks(ConnectTimeout) : now' = now + d
  /\ \/ target # "dead" /\ ppc' = "ready"
     \/ ppc' = "check"
  /\ UNCHANGED <<poller, timeout, start_time, target>>

\* wait_for_ssh: the except branch: raise TimeoutError, or go on to sleep
SshCheck ==
  /\ poller = "ssh"
  /\ ppc = "check"
  /\ ppc' = IF TimedOut(now, start_time, timeout) THEN "timeout" ELSE "sleep"
  /\ UNCHANGED <<poller, timeout, now, start_time, attempts, target>>

\* time.sleep(5): at least five units
Sleep ==
  /\ ppc = "sleep"
  /\ \E late \in 0..1 : now' = now + Ticks(SleepInterval) + late
  /\ ppc' = "attempt"
  /\ UNCHANGED <<poller, timeout, start_time, attempts, target>>

\* `range(timeout // 5)`
Probes(limit) == limit \div SleepInterval

\* wait_for_docker: one pass of the for loop: exec_command("sudo docker
\* --version"), `"Docker version" in out`; exec_command itself may raise
DockerProbe ==
  /\ poller = "docker"
  /\ ppc = "attempt"
  /\ attempts < Probes(timeout)
  /\ attempts' = attempts + 1
  /\ \/ target # "dead" /\ ppc' = "ready"
     \/ ppc' = "sleep"
     \/ target = "broken" /\ ppc' = "error"
  /\ UNCHANGED <<poller, timeout, now, start_time, target>>

\* wait_for_docker: the loop is exhausted: raise Exception("Docker did not
\* become ready within timeout.")
DockerGivesUp ==
  /\ poller = "docker"
  /\ ppc = "attempt"
  /\ attempts >= Probes(timeout)
  /\ ppc' = "timeout"
  /\ UNCHANGED <<poller, timeout, now, start_time, attempts, target>>

Poll ==
  \/ SshAttempt
  \/ SshCheck
  \/ Sleep
  \/ DockerProbe
  \/ DockerGivesUp

NextPoll == Poll /\ UNCHANGED <<fileVars, cloudVars, localVars, cmdVars, createVars>>

SpecPoll == InitPoll /\ [][NextPoll]_vars

\* every attempt returns and time advances: a poller that can step does step
FairSpecPoll == SpecPoll /\ WF_vars(NextPoll)

(***************************************************************************)
(* The bucket-creation path on its own: aws.create_public_s3_bucket called *)
(* with the one argument it declares, then the statements that follow the  *)
(* call in deploy_react / deploy_angular / deploy_vite (cli.py:324-344).   *)
(***************************************************************************)
\* the path is entered by a static deploy whose record was not reused: no
\* record, a record of another environment, or a record of a missing bucket
InitCreate ==
  /\ \E e \in Envs, live \in BOOLEAN :
       /\ env = e
       /\ s3 = [b \in BucketNames |->
                  IF b = "site-a" /\ live
                  THEN [live |-> TRUE, region |-> REGION, objs |-> TRUE] ELSE NoBucket]
       /\ bucketCfg \in {NoRecord} \cup {Record("site-a", REGION, e2) : e2 \in Envs}
       /\ ~ (Matches(bucketCfg, e) /\ live)
  /\ before = bucketCfg
  /\ bucket_name = "none"
  /\ instFile = 0
  /\ sgFile = 0
  /\ groups = [i \in Ids |-> NoGroup]
  /\ instances = [i \in Ids |-> NoInstance]
  /\ pc = "c_name"
  /\ cmd = "deploy_static"
  /\ bucket = "none"
  /\ region = REGION
  /\ sg = 0
  /\ inst = 0
  /\ sessions = 0
  /\ invoked = <<>>
  /\ said = {}
  /\ err = "none"
  /\ exit = 0
  /\ prev = NoSummary
  /\ drift = FALSE
  /\ commands = 1
  /\ poller = "none"
  /\ timeout = 0
  /\ now = 0
  /\ start_time = 0
  /\ attempts = 0
  /\ ppc = "off"
  /\ target = "none"

\* `except ClientError`: print the error, return None
ReturnNone ==
  /\ pc' = "c_check"
  /\ UNCHANGED <<bucket, said>>

\* generate_unique_bucket_name(prefix): prefix plus eight characters of a uuid4
GenerateName ==
  /\ pc = "c_name"
  /\ \E n \in BucketNames : bucket_name' = n
  /\ pc' = "c_create"
  /\ UNCHANGED <<cmd, env, said, err, exit, prev, drift, commands, before>>
  /\ UNCHANGED <<fileVars, cloudVars, localVars, pollVars>>

\* s3.create_bucket(Bucket=bucket_name, LocationConstraint=REGION): one call;
\* a name that is taken, or any other refusal, is a ClientError
CreateBucketCall ==
  /\ pc = "c_create"
  /\ \/ /\ ~ s3[bucket_name].live
        /\ s3' = [s3 EXCEPT ![bucket_name] =
                    [live |-> TRUE, region |-> REGION, objs |-> FALSE]]
        /\ said' = said \cup {"Bucket created"}
        /\ pc' = "c_access"
        /\ UNCHANGED bucket
     \/ /\ ReturnNone
        /\ UNCHANGED s3
  /\ UNCHANGED <<cmd, env, err, exit, prev, drift, commands, createVars>>
  /\ UNCHANGED <<fileVars, groups, instances, region, sg, inst, sessions, invoked, pollVars>>

\* the three configuration calls that follow: put_public_access_block,
\* put_bucket_policy, put_bucket_website; the last one is followed by
\* `return bucket_name`
ConfigureCalls == <<"c_access", "c_policy", "c_website">>

Configure(k) ==
  /\ pc = ConfigureCalls[k]
  /\ \/ /\ k < Len(ConfigureCalls)
        /\ pc' = ConfigureCalls[k + 1]
        /\ UNCHANGED <<bucket, said>>
     \/ /\ k = Len(ConfigureCalls)
        /\ bucket' = bucket_name
        /\ said' = said \cup {"Public read access granted"}
        /\ pc' = "c_check"
     \/ ReturnNone
  /\ UNCHANGED <<cmd, env, err, exit, prev, drift, commands, createVars>>
  /\ UNCHANGED <<fileVars, cloudVars, region, sg, inst, sessions, invoked, pollVars>>

\* a deploy that saves its record only after the upload
CheckCreatedThenSync ==
  /\ pc = "c_check"
  /\ IF bucket = "none"
     THEN Return({"Failed to create bucket"})
     ELSE Goto("s_sync")
  /\ UNCHANGED <<fileVars, cloudVars, localVars, pollVars, createVars>>

\* `if not bucket: click.echo(" Failed to create bucket."); return`
CheckCreated ==
  /\ pc = "c_check"
  /\ IF bucket = "none"
     THEN Return({"Failed to create bucket"})
     ELSE Goto("c_open")
  /\ UNCHANGED <<fileVars, cloudVars, localVars, pollVars, createVars>>

\* save_bucket_config: `open(CONFIG_FILE, "w")` truncates bucket.json in place
SaveOpen ==
  /\ pc = "c_open"
  /\ bucketCfg' = CorruptFile
  /\ Goto("c_dump")
  /\ UNCHANGED <<instFile, sgFile, cloudVars, localVars, pollVars, createVars>>

\* save_bucket_config: `json.dump(data, f)` and the close of the `with` block
SaveDump ==
  /\ pc = "c_dump"
  /\ bucketCfg' = Record(bucket, region, env)
  /\ Goto("s_sync")
  /\ UNCHANGED <<instFile, sgFile, cloudVars, localVars, pollVars, createVars>>

NextCreate ==
  \/ GenerateName
  \/ CreateBucketCall
  \/ \E k \in 1..Len(ConfigureCalls) : Configure(k)
  \/ CheckCreated
  \/ SaveOpen
  \/ SaveDump
  \/ Sync
  \/ EnableWebsite
  \/ Killed
  \/ ProcessExits
  \/ Rollback
  \/ TerminateInstance
  \/ DeleteSecurityGroup
  \/ EmptyBucket
  \/ DeleteBucket
  \/ UnlinkConfig

SpecCreate == InitCreate /\ [][NextCreate]_vars

(***************************************************************************)
(* The static deploys on their own, over every bucket.json they can find:  *)
(* none, a corrupt one, a record of either environment, or a record        *)
(* without an env field (save_bucket_config writes env only when given     *)
(* one, cli.py:41-42; state.get("env") is then None).                      *)
(***************************************************************************)
InitStatic ==
  /\ \E live \in BOOLEAN, r \in Regions :
       s3 = [b \in BucketNames |->
               IF b = "site-a" /\ live
               THEN [live |-> TRUE, region |-> r, objs |-> TRUE] ELSE NoBucket]
  /\ bucketCfg \in {NoRecord, CorruptFile}
                     \cup {Record("site-a", REGION, e) : e \in Envs \cup {"none"}}
  /\ instFile = 0
  /\ sgFile = 0
  /\ groups = [i \in Ids |-> NoGroup]
  /\ instances = [i \in Ids |-> NoInstance]
  /\ pc = "idle"
  /\ cmd = "none"
  /\ env = "none"
  /\ bucket = "none"
  /\ region = REGION
  /\ sg = 0
  /\ inst = 0
  /\ sessions = 0
  /\ invoked = <<>>
  /\ said = {}
  /\ err = "none"
  /\ exit = -1
  /\ prev = NoSummary
  /\ drift = FALSE
  /\ commands = 0
  /\ poller = "none"
  /\ timeout = 0
  /\ now = 0
  /\ start_time = 0
  /\ attempts = 0
  /\ ppc = "off"
  /\ target = "none"
  /\ bucket_name = "none"
  /\ before = NoRecord

NextStatic ==
  \/ \E e \in Envs, fw \in StaticFrameworks : Deploy(e, fw)
  \/ DeployStopsEarly
  \/ DeployCloned
  \/ DeployStatic
  \/ ProcessExits
  \/ BucketDeletedOutOfBand
  \/ Killed

SpecStatic == InitStatic /\ [][NextStatic]_vars

(***************************************************************************)
(* Properties.                                                             *)
(***************************************************************************)
\* positions of a dockerized deploy from the start of wait_until_running on
FromWaitOn ==
  {"d_wait", "d_write_instance", "d_write_group", "d_address",
   "u_wait_ssh", "u_connect", "u_wait_docker", "u_reconnect", "u_upload", "u_step"}

\* the command is over and was not killed
Completed(c) == pc = "done" /\ cmd = c /\ err # "killed"

\* C1: in provision_ec2_with_docker the security-group id and the instance
\* id are in the state files before wait_until_running begins: from the
\* start of the wait onward the files name both resources of this run, so
\* that a kill or a waiter timeout there leaves them for rollback to find.
C1_PersistedBeforeWait ==
  (cmd = "deploy_dockerized" /\ pc \in FromWaitOn) => (instFile = inst /\ sgFile = sg)

\* C2: the pipeline steps run in the declared order, and a step is invoked
\* only if every earlier step exited with status 0: after a step that exits
\* non-zero no later step is invoked.
C2_PipelineAbortsOnFirstFailure ==
  \A k \in 1..Len(invoked) :
    /\ invoked[k].step = PipelineSteps[k]
    /\ \A j \in 1..(k - 1) : invoked[j].status = 0

\* C2 witness: the second step exited non-zero and the run is over with the
\* third step never invoked.
C2_Witness ==
  /\ pc = "done"
  /\ Len(invoked) = 2
  /\ invoked[1].status = 0
  /\ invoked[2].status = 1

\* a pipeline step of this run exited non-zero
StepFailed == \E k \in 1..Len(invoked) : invoked[k].status = 1

\* C3: when a pipeline step exits non-zero the deploy ends with an error
\* that reaches the caller, and is not reported to the operator as deployed.
C3_FailedStepIsAnError ==
  (Completed("deploy_dockerized") /\ StepFailed) => (err # "none" /\ "Deployed at" \notin said)

\* C4: two static-site deploys in a row for the same environment, with no
\* external change, use the same bucket, and bucket.json names that bucket.
C4_StaticDeployIdempotent ==
  (Completed("deploy_static") /\ said \cap EarlyStops = {} /\ ~ drift
     /\ prev.cmd = "deploy_static" /\ prev.env = env)
  => /\ bucket # "none"
     /\ bucket = prev.bucket
     /\ bucketCfg = Record(bucket, bucketCfg.region, env)

\* C5: when the bucket that bucket.json names for the environment is gone,
\* the next static-site deploy creates a new bucket and bucket.json names it.
C5_RecreateOnDrift ==
  (Completed("deploy_static") /\ "Config refers to a deleted/missing bucket" \in said)
  => /\ bucket # "none"
     /\ bucket_exists(bucket)
     /\ bucketCfg = Record(bucket, bucketCfg.region, env)

\* nothing is left in the state files
StateEmpty == instFile = 0 /\ sgFile = 0 /\ ~ bucketCfg.present

\* C6: a rollback that follows a rollback ends without error and leaves the
\* state files empty (waiter timeouts of the provider apart).
C6_RollbackTwice ==
  (Completed("rollback") /\ prev.cmd = "rollback" /\ err # "WaiterError")
  => (err = "none" /\ StateEmpty)

\* C7: a rollback step whose identifier no longer resolves to a live
\* resource is skipped silently: rollback never ends with the provider's
\* not-found error, and a rollback that returned has cleared every identifier.
C7_MissingResourceSkipped ==
  Completed("rollback") =>
    /\ err # "ClientError:NotFound"
    /\ (err = "none" => StateEmpty)

\* the reports of a failure that the commands echo before they return
FailureReports == {"AWS CLI sync failed", "Failed", "EC2 setup failed"}

\* C10: a command exits with status 0 only on success: a deploy that
\* reported a failed sync, a failed pipeline step or a failed EC2 setup, or
\* that ended with an exception, exits non-zero.
C10_ExitStatusReflectsFailure ==
  (pc = "done" /\ err # "killed" /\ (said \cap FailureReports # {} \/ err # "none"))
  => exit # 0

\* C8: wait_for_ssh with timeout 20 and the interval of 5 against a host
\* that never accepts a connection makes at most 5 attempts, never reports
\* success, and its fifth failed attempt finds the timeout exceeded.
C8_SshAttemptsBounded ==
  (poller = "ssh" /\ timeout = 20 /\ target = "dead")
  => /\ attempts <= 5
     /\ ppc \notin {"ready", "error"}
     /\ (ppc = "sleep" => attempts < 5)

\* C8 witness: the poller gave up with the timeout error after 5 attempts.
C8_Witness ==
  poller = "ssh" /\ timeout = 20 /\ target = "dead" /\ ppc = "timeout" /\ attempts = 5

C11_CorruptStateIsAbsent ==
  pc = "done" =>
    /\ err # "JSONDecodeError"
    /\ (Completed("rollback") /\ err = "none" /\ bucketCfg = CorruptFile
          => "No S3 bucket found to delete" \in said)

\* C12: a crash at any point of the bucket-creation path, inside
\* save_bucket_config included, leaves bucket.json holding either the complete
\* record it held before or the complete new record.
C12_SaveIsAtomic ==
  (pc = "done" /\ cmd = "deploy_static" /\ err = "killed") =>
    bucketCfg \in {before, Record(bucket, region, env)}

\* C13: the records are kept per environment: no step of a deploy to one
\* environment changes or removes what is recorded for another environment
\* (the host and group ids, the bucket record).
C13_OtherEnvironmentUntouched ==
  [][/\ (cmd = "deploy_dockerized" /\ sgFile # 0 /\ groups[sgFile].live
           /\ groups[sgFile].name # env)
        => (sgFile' = sgFile /\ instFile' = instFile)
     /\ (cmd = "deploy_static" /\ bucketCfg.present /\ ~ LoadRaises(bucketCfg)
           /\ bucketCfg.env # env)
        => bucketCfg' = bucketCfg]_vars

\* the three deletion steps of rollback_all_resources, by position
RollbackStep(p) ==
  CASE p \in {"r_instance", "r_wait_terminated", "r_remove_instance_file"} -> 1
    [] p \in {"r_group", "r_remove_group_file"} -> 2
    [] p \in {"r_bucket", "r_delete_bucket", "r_unlink"} -> 3
    [] OTHER -> 0

\* C14: a rollback that ends without error leaves no state at all; a rollback
\* step that fails removes nothing, so that what remains is the identifier of
\* the failed step and, untouched, those of the steps not yet attempted, the
\* identifiers of the earlier steps being gone.
C14_FailedRollbackKeepsTheRest ==
  [][(cmd = "rollback" /\ RollbackStep(pc) > 0) =>
       /\ RollbackStep(pc) = 1 => (sgFile' = sgFile /\ bucketCfg' = bucketCfg)
       /\ RollbackStep(pc) = 2 => (instFile = 0 /\ bucketCfg' = bucketCfg)
       /\ RollbackStep(pc) = 3 => (instFile = 0 /\ sgFile = 0)
       /\ (pc' = "done" /\ err' \notin {"none", "killed"}) =>
            /\ fileVars' = fileVars
            /\ RollbackStep(pc) = 1 => instFile # 0
            /\ RollbackStep(pc) = 2 => sgFile # 0
            /\ RollbackStep(pc) = 3 => bucketCfg.present
       /\ (pc' = "done" /\ err' = "none") => StateEmpty']_vars

\* a rollback that terminated the instance and then failed on the group,
\* with a bucket record still to come
C14_Witness ==
  /\ Completed("rollback")
  /\ err = "ClientError:NotFound"
  /\ instFile = 0
  /\ sgFile # 0
  /\ bucketCfg.present
  /\ prev.cmd = "none"

\* C15: rollback asks for the deletion of the security group only once the
\* instance it tracked has been reported terminated, and for the deletion of
\* the bucket only once the objects of the bucket have been deleted.
C15_RollbackOrder ==
  cmd = "rollback" =>
    /\ (RollbackStep(pc) >= 2 /\ inst # 0) =>
         instances[inst].state \in {"terminated", "gone"}
    /\ (pc \in {"r_delete_bucket", "r_unlink"} /\ s3[bucketCfg.bucket].live) =>
         ~ s3[bucketCfg.bucket].objs

\* a rollback that has deleted the instance, the group and the bucket
C15_Witness ==
  /\ cmd = "rollback"
  /\ pc = "r_unlink"
  /\ inst # 0
  /\ groups[instances[inst].sg] = DeletedGroup

\* C16: in every persisted state, the one left by a crash between two writes
\* included, a recorded instance id comes with a recorded security group id.
C16_InstanceRecordedWithGroup ==
  instFile # 0 => sgFile # 0

\* a static deploy takes the branch that reuses the cached bucket
Reuses == pc = "s_select" /\ pc' = "s_sync"

C18_HalfConfiguredBucketRecorded ==
  (pc = "done" /\ "Bucket created" \in said /\ "Failed to create bucket" \in said) =>
    (bucketCfg.present /\ bucketCfg.bucket = bucket_name)

\* C19: when authorizing the ingress or creating the instance fails after the
\* security group was created, the id of that group is in the persisted state.
C19_OrphanedGroupRecorded ==
  (pc = "done" /\ cmd = "deploy_dockerized" /\ err = "ClientError" /\ sg # 0) =>
    sgFile = sg

\* C20: the transfer of app.zip either succeeds, and the pipeline goes on, or
\* ends the deploy with an error: no remote command has run, the exit status
\* is not zero and no deployment is announced.
C20_FailedTransferIsFatal ==
  [][(pc = "u_upload" /\ pc' \notin {"u_upload", "u_step"}) =>
       /\ pc' = "done"
       /\ err' \in {"SCPException", "killed"}
       /\ exit' # 0
       /\ invoked' = <<>>
       /\ "Deployed at" \notin said']_vars

\* a deploy ended by the failed transfer, its session closed
C20_Witness ==
  /\ pc = "done"
  /\ cmd = "deploy_dockerized"
  /\ err = "SCPException"
  /\ invoked = <<>>
  /\ sessions = 0

\* the statements of a dockerized deploy, in the order of the function bodies
DockerStages ==
  <<"cloning", "d_sg", "d_ingress", "d_instance", "d_wait", "d_write_instance",
    "d_write_group", "d_address", "u_wait_ssh", "u_connect", "u_wait_docker",
    "u_reconnect", "u_upload", "u_step">>

\* each stage with the one that follows it
DockerOrder ==
  {<<DockerStages[k], DockerStages[k + 1]>> : k \in 1..(Len(DockerStages) - 1)}

\* C21: a dockerized deploy goes through its stages one by one and in order
\* (group, instance, wait for running, address, wait_for_ssh, wait_for_docker,
\* upload, pipeline) or ends; the instance is created under a group already
\* created, and a remote command runs only after the upload.
C21_DockerizedDeployOrder ==
  [][cmd = "deploy_dockerized" =>
       /\ pc' \notin {pc, "done", "idle"} => <<pc, pc'>> \in DockerOrder
       /\ (inst' # inst /\ inst' # 0) => (pc = "d_instance" /\ sg # 0)
       /\ (invoked' # invoked /\ invoked' # <<>>) => pc = "u_step"]_vars

\* the first remote command of a dockerized deploy has run
C21_Witness ==
  /\ cmd = "deploy_dockerized"
  /\ pc = "u_step"
  /\ Len(invoked) = 1
  /\ sg # 0
  /\ inst # 0

\* C22: a poll attempt that fails is followed by the sleep and another
\* attempt; a poller ends only as ready or with its timeout, never with the
\* error of an attempt.
C22_OnlyTimeoutReported ==
  ppc \in {"attempt", "check", "sleep", "ready", "timeout"}

\* C23: wait_for_docker probes until the output carries "Docker version" and
\* stops at that probe; otherwise it ends with its timeout, after
\* floor(timeout / 5) probes and as many sleeps of five units.
C23_DockerPollerOutcome ==
  poller = "docker" =>
    /\ attempts <= Probes(timeout)
    /\ ppc \notin {"attempt", "sleep", "ready"} =>
         /\ ppc = "timeout"
         /\ attempts = Probes(timeout)
         /\ now - start_time >= Ticks(Probes(timeout) * SleepInterval)

\* C24: a creation rejected because the generated name is taken is followed
\* by the generation of a fresh name and another creation.
C24_CollisionRetried ==
  [][(pc = "c_create" /\ s3[bucket_name].live /\ pc' # pc /\ err' # "killed")
       => pc' = "c_name"]_vars

\* C25: a static deploy that got as far as choosing its bucket has created
\* one bucket when it did not reuse the recorded one, and none when it did.
C25_OneBucketUnlessReused ==
  (Completed("deploy_static") /\ said \cap EarlyStops = {} /\ err # "JSONDecodeError") =>
    IF "Reusing bucket" \in said
    THEN "Bucket created" \notin said
    ELSE "Bucket created" \in said

\* every live bucket, instance and security group is named in a state file
NoOrphans ==
  /\ \A i \in Ids : instances[i].state = "running" => instFile = i
  /\ \A g \in Ids : groups[g].live => sgFile = g
  /\ \A b \in BucketNames : s3[b].live => (bucketCfg.present /\ bucketCfg.bucket = b)

\* C26: after a command that ran to its end without error, every resource
\* the tool created and that still exists is named in the persisted state.
C26_NoOrphanAfterCommands ==
  (pc = "done" /\ err = "none" /\ prev.cmd = "none") => NoOrphans

\* C27: a static deploy for an environment works on the recorded bucket (it
\* reuses it, syncs onto it, configures it) only when the record carries
\* that environment in its env field.
C27_ReuseOnlyForSameEnvironment ==
  (cmd = "deploy_static"
     /\ (bucket # "none" \/ pc \in {"s_sync", "s_website"} \/ "Reusing bucket" \in said)) =>
    /\ bucketCfg.present
    /\ bucketCfg.env = env
    /\ bucketCfg.bucket = bucket

\* a deploy that found a live bucket recorded without env, or for the other
\* environment, got past the choice of its bucket and left that one alone
C27_Witness ==
  /\ pc = "done"
  /\ cmd = "deploy_static"
  /\ bucketCfg.present
  /\ ~ LoadRaises(bucketCfg)
  /\ bucketCfg.env # env
  /\ s3[bucketCfg.bucket].live
  /\ err = "TypeError"
  /\ bucket = "none"

\* C28: a dockerized deploy to an environment whose group "<environment>-sg"
\* still exists ends at create_security_group with the provider's error:
\* no group and no instance is created and the state files stay as they were.
C28_SecondDockerDeployStopsAtGroup ==
  [][(cmd = "deploy_dockerized" /\ pc = "d_sg" /\ pc' # pc
        /\ \E g \in Ids : groups[g].live /\ groups[g].name = env) =>
       /\ pc' = "done"
       /\ err' \in {"ClientError", "killed"}
       /\ exit' # 0
       /\ inst' = 0
       /\ cloudVars' = cloudVars
       /\ fileVars' = fileVars]_vars

\* the second deploy to the deployed environment has failed on its group
C28_Witness ==
  /\ pc = "done"
  /\ cmd = "deploy_dockerized"
  /\ err = "ClientError"
  /\ sg = 0
  /\ sgFile # 0
  /\ groups[sgFile].live
  /\ groups[sgFile].name = env
  /\ instFile # 0

\* C29: up to the point where a deploy stops early (no project config, clone
\* failed, project not found, build failed, no build output) no step changes a
\* state file and none makes a bucket, a group or an instance appear.
C29_EarlyStopChangesNothing ==
  [][(pc \in {"cloning", "building"} \/ pc' = "cloning") =>
       /\ fileVars' = fileVars
       /\ \A b \in BucketNames : s3'[b].live => s3[b].live
       /\ \A g \in Ids : groups'[g].live => groups[g].live
       /\ \A i \in Ids : instances'[i] # NoInstance => instances[i] # NoInstance]_vars

\* a deploy stopped by its build, with a host and a bucket on record
C29_Witness ==
  /\ pc = "done"
  /\ "build failed" \in said
  /\ bucketCfg.present
  /\ instFile # 0

C31_FullRollbackMeansDeleted ==
  /\ "Full rollback complete" \in said =>
       /\ StateEmpty
       /\ inst # 0 => instances[inst].state \in {"terminated", "gone"}
       /\ sg # 0 => ~ groups[sg].live
       /\ bucket # "none" => ~ s3[bucket].live
  /\ cmd = "rollback" =>
       /\ pc = "r_remove_instance_file" =>
            instances[instFile].state \in {"terminated", "gone"}
       /\ pc = "r_remove_group_file" => ~ groups[sgFile].live
       /\ pc = "r_unlink" => ~ s3[bucketCfg.bucket].live

\* a rollback of a host and a bucket has reported itself complete
C31_Witness ==
  /\ "Full rollback complete" \in said
  /\ "Deleted S3 bucket" \in said
  /\ inst # 0
  /\ sg # 0
  /\ bucket # "none"

\* C32: however upload_and_run_on_ec2 ends (a readiness timeout, a connection
\* error, a failed transfer, a failed step, success), no SSH session it
\* opened is left open.
C32_SessionsClosedOnExit ==
  (pc = "done" /\ cmd = "deploy_dockerized") => sessions = 0

\* the function has ended on the docker timeout, with its first session open
\* until then
C32_Witness ==
  /\ pc = "done"
  /\ cmd = "deploy_dockerized"
  /\ err = "DockerTimeout"
  /\ sessions = 0

=============================================================================
